---- MODULE Spec2Model ----
(***************************************************************************)
(* Model of the reparenting window manager in                              *)
(* src/windowManager/window_manager.{hpp,cpp}.                             *)
(*                                                                         *)
(* The manager's own state (clients_, wm_detected_, the position of Run)   *)
(* is modelled together with the part of the X server's state that its     *)
(* requests read and write: which client windows exist, which are mapped,  *)
(* each one's parent, the live frame windows, the save set, the server     *)
(* grab and the installed Xlib error handler.  Every Xlib request a        *)
(* handler issues is appended to `log`, in program order, with the status  *)
(* the server gives it.                                                    *)
(***************************************************************************)
EXTENDS Integers, Sequences, FiniteSets, TLC

\* ------------------------------------------------------------------ bounds
NumClients == 2      \* client (application) top-level windows
MaxFrames  == 2      \* window identifiers available to XCreateSimpleWindow

\* -------------------------------------------------------------- identifiers
None      == 0       \* X11 None; also the value-initialised mapped_type of clients_
Root      == 1       \* root_
BadAccess == 10      \* X11 error code tested by OnWMDetected
BadWindow == 3       \* X11 error code of a request that names a window that is gone

Clients  == 2 .. (NumClients + 1)
FrameIds == (NumClients + 2) .. (NumClients + 1 + MaxFrames)
Windows  == {Root} \cup Clients \cup FrameIds

\* The fields of XWindowChanges, which are also the bits of a value mask.
ChangeFields == {"x", "y", "width", "height", "border_width", "sibling", "stack_mode"}

\* Value masks a configure request is tried with.
Masks == { {}, {"width", "height"}, ChangeFields }

\* Field values of a configure-request event (XConfigureRequestEvent); every
\* field carries a different value so that a mixed-up copy is visible.
EvFieldValues ==
  { [x |-> 1 + k, y |-> 2 + k, width |-> 3 + k, height |-> 4 + k,
     border_width |-> 5 + k, above |-> 6 + k, detail |-> 7 + k] : k \in {0, 10} }

NoFieldValues ==
  [x |-> 0, y |-> 0, width |-> 0, height |-> 0, border_width |-> 0, above |-> 0, detail |-> 0]

NoChanges ==
  [x |-> 0, y |-> 0, width |-> 0, height |-> 0, border_width |-> 0, sibling |-> 0,
   stack_mode |-> 0]

VARIABLES
  pc,                 \* position of Run
  wm_detected_,       \* static bool WindowManager::wm_detected_
  clients_,           \* unordered_map<Window, Window>: client -> frame
  top_level_windows,  \* the array XQueryTree returned
  i,                  \* index of the startup loop into top_level_windows
  e,                  \* XEvent e of the current loop iteration
  handler,            \* the Xlib error handler installed
  otherWM,            \* server: another client already redirects the root
  grabbed,            \* server: XGrabServer was issued and XUngrabServer not yet
  alive,              \* server: client windows that exist
  mapped,             \* server: client windows that are mapped
  override,           \* server: client windows with override_redirect set
  parent,             \* server: parent of each client window (None once destroyed)
  frameFor,           \* server: live frame -> the client it was created for, else None
  frameMapped,        \* server: frames that are mapped
  saveSet,            \* server: this connection's save set
  unmapDue,           \* server: destroyed clients whose UnmapNotify, reported by the
                      \*         frame they were in, is still to be read
  log                 \* requests issued by the startup sequence / the current iteration

vars == <<pc, wm_detected_, clients_, top_level_windows, i, e, handler, otherWM, grabbed,
          alive, mapped, override, parent, frameFor, frameMapped, saveSet, unmapDue, log>>

\* ------------------------------------------------------ std::unordered_map
Count(m, w) == IF w \in DOMAIN m THEN 1 ELSE 0

Put(m, w, v) == [k \in DOMAIN m \cup {w} |-> IF k = w THEN v ELSE m[k]]

\* operator[]: inserts a value-initialised entry when the key is absent.
Index(m, w) == IF w \in DOMAIN m THEN m ELSE Put(m, w, None)

Erase(m, w) == [k \in DOMAIN m \ {w} |-> m[k]]

EmptyMap == [k \in {} |-> None]

\* ------------------------------------------------------------ the X server
\* The state a handler works on: the registry, the server's window tree and
\* the requests issued so far.  crashed: a glog CHECK failed (process aborts).
Cur ==
  [clients_ |-> clients_, alive |-> alive, mapped |-> mapped, parent |-> parent,
   frameFor |-> frameFor, frameMapped |-> frameMapped, saveSet |-> saveSet,
   unmapDue |-> unmapDue,
   grabbed |-> grabbed, log |-> log, crashed |-> FALSE]

LiveFrames(S) == {f \in FrameIds : S.frameFor[f] # None}

IsWindow(S, win) == win = Root \/ win \in S.alive \/ win \in LiveFrames(S)

Req(name, win, arg, ok) ==
  [req |-> name, win |-> win, arg |-> arg, mask |-> {}, changes |-> NoChanges, ok |-> ok,
   clients_ |-> EmptyMap]

\* The request goes out; the log entry also records the registry as it is at
\* that point of the handler.
Issue(S, r) == [S EXCEPT !.log = Append(@, [r EXCEPT !.clients_ = S.clients_])]

\* The owner of client window w destroys it (or exits).  A mapped window is
\* unmapped first: the server queues an UnmapNotify reported by the parent,
\* then the DestroyNotify.  Only an UnmapNotify reported by a frame is kept
\* track of: OnUnmapNotify returns at once on one reported by the root.
ClientDestroy(S, w) ==
  [S EXCEPT !.alive = @ \ {w}, !.mapped = @ \ {w}, !.saveSet = @ \ {w},
            !.parent = [@ EXCEPT ![w] = None],
            !.unmapDue = IF w \in S.mapped /\ S.parent[w] # Root THEN @ \cup {w} ELSE @]

XGrabServer(S) == Issue([S EXCEPT !.grabbed = TRUE], Req("GrabServer", None, None, TRUE))

XUngrabServer(S) == Issue([S EXCEPT !.grabbed = FALSE], Req("UngrabServer", None, None, TRUE))

\* map_state == IsViewable: the window and all its ancestors are mapped.
IsViewable(S, w) ==
  /\ w \in S.mapped
  /\ S.parent[w] = Root \/ S.parent[w] \in S.frameMapped

\* The status of XGetWindowAttributes(display_, w, &attrs): zero when w is no window.
XGetWindowAttributes(S, w) == Issue(S, Req("GetWindowAttributes", w, None, w \in S.alive))

\* XCreateSimpleWindow with the identifier f Xlib allocated; created for client w.
XCreateSimpleWindow(S, f, w) ==
  Issue([S EXCEPT !.frameFor = [@ EXCEPT ![f] = w]], Req("CreateSimpleWindow", f, Root, TRUE))

XSelectInput(S, win, ok) == Issue(S, Req("SelectInput", win, None, ok))

XAddToSaveSet(S, w) ==
  LET ok == w \in S.alive
  IN  Issue(IF ok THEN [S EXCEPT !.saveSet = @ \cup {w}] ELSE S, Req("AddToSaveSet", w, None, ok))

XRemoveFromSaveSet(S, w) ==
  LET ok == w \in S.alive
  IN  Issue(IF ok THEN [S EXCEPT !.saveSet = @ \ {w}] ELSE S,
            Req("RemoveFromSaveSet", w, None, ok))

\* A mapped window is unmapped, moved and mapped again: its map state is kept.
XReparentWindow(S, w, p) ==
  LET ok == w \in S.alive /\ IsWindow(S, p)
  IN  Issue(IF ok THEN [S EXCEPT !.parent = [@ EXCEPT ![w] = p]] ELSE S,
            Req("ReparentWindow", w, p, ok))

XMapWindow(S, win) ==
  LET ok == IsWindow(S, win)
      T  == IF win \in LiveFrames(S) THEN [S EXCEPT !.frameMapped = @ \cup {win}]
            ELSE IF win \in S.alive THEN [S EXCEPT !.mapped = @ \cup {win}]
            ELSE S
  IN  Issue(T, Req("MapWindow", win, None, ok))

XUnmapWindow(S, win) ==
  LET ok == IsWindow(S, win)
      T  == IF win \in LiveFrames(S) THEN [S EXCEPT !.frameMapped = @ \ {win}]
            ELSE IF win \in S.alive THEN [S EXCEPT !.mapped = @ \ {win}]
            ELSE S
  IN  Issue(T, Req("UnmapWindow", win, None, ok))

\* Destroying a window destroys the windows still inside it.
XDestroyWindow(S, win) ==
  LET ok   == win \in LiveFrames(S) \/ win \in S.alive
      kids == {c \in S.alive : S.parent[c] = win}
      T    == IF win \in LiveFrames(S)
              THEN [S EXCEPT !.frameFor = [@ EXCEPT ![win] = None],
                             !.frameMapped = @ \ {win},
                             !.alive = @ \ kids, !.mapped = @ \ kids, !.saveSet = @ \ kids,
                             !.parent = [c \in Clients |-> IF c \in kids THEN None ELSE @[c]]]
              ELSE IF win \in S.alive THEN ClientDestroy(S, win)
              ELSE S
  IN  Issue(T, Req("DestroyWindow", win, None, ok))

XConfigureWindow(S, win, value_mask, changes) ==
  Issue(S, [req |-> "ConfigureWindow", win |-> win, arg |-> None, mask |-> value_mask,
            changes |-> changes, ok |-> IsWindow(S, win), clients_ |-> EmptyMap])

\* What XConfigureWindow does to a window's geometry g: only the fields named
\* in the mask are taken from the changes.
Configured(g, value_mask, changes) ==
  [fld \in ChangeFields |-> IF fld \in value_mask THEN changes[fld] ELSE g[fld]]

\* --------------------------------------------------------- WindowManager
\* Frame with the exclusion policy testing override_redirect only.
Frame_NoViewableTest(S, w, was_created_before_window_manager, f, vanish) ==
  LET S1 == XGetWindowAttributes(S, w)
  IN  IF ~(w \in S.alive)
      THEN [S1 EXCEPT !.crashed = TRUE]
      ELSE IF was_created_before_window_manager /\ w \in override
      THEN S1
      ELSE LET S2 == IF vanish THEN ClientDestroy(S1, w) ELSE S1
               S3 == XCreateSimpleWindow(S2, f, w)
               S4 == XSelectInput(S3, f, TRUE)
               S5 == XAddToSaveSet(S4, w)
               S6 == XReparentWindow(S5, w, f)
               S7 == XMapWindow(S6, f)
           IN  [S7 EXCEPT !.clients_ = Put(@, w, f)]

\* Frame that does not add the window to the save set.
Frame_NoSaveSet(S, w, was_created_before_window_manager, f, vanish) ==
  LET S1 == XGetWindowAttributes(S, w)
  IN  IF ~(w \in S.alive)
      THEN [S1 EXCEPT !.crashed = TRUE]
      ELSE IF was_created_before_window_manager /\ (w \in override \/ ~IsViewable(S1, w))
      THEN S1
      ELSE LET S2 == IF vanish THEN ClientDestroy(S1, w) ELSE S1
               S3 == XCreateSimpleWindow(S2, f, w)
               S4 == XSelectInput(S3, f, TRUE)
               S6 == XReparentWindow(S4, w, f)
               S7 == XMapWindow(S6, f)
           IN  [S7 EXCEPT !.clients_ = Put(@, w, f)]

\* Frame(w, was_created_before_window_manager).  f is the identifier of the
\* frame XCreateSimpleWindow returns; vanish: the owner of w destroys it after
\* the attribute query was answered and before the server executes the
\* requests that follow.
Frame(S, w, was_created_before_window_manager, f, vanish) ==
  LET S1 == XGetWindowAttributes(S, w)
  IN  IF ~(w \in S.alive)
      THEN [S1 EXCEPT !.crashed = TRUE]
      ELSE IF was_created_before_window_manager /\ (w \in override \/ ~IsViewable(S1, w))
      THEN S1
      ELSE LET S2 == IF vanish THEN ClientDestroy(S1, w) ELSE S1
               S3 == XCreateSimpleWindow(S2, f, w)
               S4 == XSelectInput(S3, f, TRUE)
               S5 == XAddToSaveSet(S4, w)
               S6 == XReparentWindow(S5, w, f)
               S7 == XMapWindow(S6, f)
           IN  [S7 EXCEPT !.clients_ = Put(@, w, f)]

\* Unframe that drops the registry entry before it issues its requests.
Unframe_ErasesFirst(S, w) ==
  LET S0    == [S EXCEPT !.clients_ = Index(@, w)]
      frame == S0.clients_[w]
      S1    == [S0 EXCEPT !.clients_ = Erase(@, w)]
      S2    == XUnmapWindow(S1, frame)
      S3    == XReparentWindow(S2, w, Root)
      S4    == XRemoveFromSaveSet(S3, w)
  IN  XDestroyWindow(S4, frame)

\* Unframe that forgets to drop the registry entry.
Unframe_KeepsEntry(S, w) ==
  LET S1    == [S EXCEPT !.clients_ = Index(@, w)]
      frame == S1.clients_[w]
      S2    == XUnmapWindow(S1, frame)
      S3    == XReparentWindow(S2, w, Root)
      S4    == XRemoveFromSaveSet(S3, w)
  IN  XDestroyWindow(S4, frame)

\* Unframe that forgets to destroy the frame.
Unframe_NoDestroy(S, w) ==
  LET S1    == [S EXCEPT !.clients_ = Index(@, w)]
      frame == S1.clients_[w]
      S2    == XUnmapWindow(S1, frame)
      S3    == XReparentWindow(S2, w, Root)
      S4    == XRemoveFromSaveSet(S3, w)
  IN  [S4 EXCEPT !.clients_ = Erase(@, w)]

Unframe(S, w) ==
  LET S1    == [S EXCEPT !.clients_ = Index(@, w)]
      frame == S1.clients_[w]
      S2    == XUnmapWindow(S1, frame)
      S3    == XReparentWindow(S2, w, Root)
      S4    == XRemoveFromSaveSet(S3, w)
      S5    == XDestroyWindow(S4, frame)
  IN  [S5 EXCEPT !.clients_ = Erase(@, w)]

\* OnMapRequest that frames the window as one created before the manager.
OnMapRequest_PreExisting(S, ev, f, vanish) ==
  LET S1 == Frame(S, ev.window, TRUE, f, vanish)
  IN  IF S1.crashed THEN S1 ELSE XMapWindow(S1, ev.window)

OnMapRequest(S, ev, f, vanish) ==
  LET S1 == Frame(S, ev.window, FALSE, f, vanish)
  IN  IF S1.crashed THEN S1 ELSE XMapWindow(S1, ev.window)

\* OnUnmapNotify without the test of the reporting window.
OnUnmapNotify_NoRootTest(S, ev) ==
  IF Count(S.clients_, ev.window) = 0 THEN S
  ELSE Unframe(S, ev.window)

\* OnUnmapNotify without the membership test.
OnUnmapNotify_NoMembershipTest(S, ev) ==
  IF ev.event = Root THEN S
  ELSE Unframe(S, ev.window)

OnUnmapNotify(S, ev) ==
  IF Count(S.clients_, ev.window) = 0 THEN S
  ELSE IF ev.event = Root THEN S
  ELSE Unframe(S, ev.window)

\* OnConfigureRequest that mirrors only the size onto the frame.
OnConfigureRequest_FrameSizeOnly(S, ev) ==
  LET changes == [x |-> ev.vals.x, y |-> ev.vals.y, width |-> ev.vals.width,
                  height |-> ev.vals.height, border_width |-> ev.vals.border_width,
                  sibling |-> ev.vals.above, stack_mode |-> ev.vals.detail]
      S1 == IF Count(S.clients_, ev.window) # 0
            THEN XConfigureWindow(S, S.clients_[ev.window],
                                  ev.value_mask \cap {"width", "height"}, changes)
            ELSE S
  IN  XConfigureWindow(S1, ev.window, ev.value_mask, changes)

\* OnConfigureRequest that tests membership with operator[] instead of count().
OnConfigureRequest_IndexTest(S, ev) ==
  LET changes == [x |-> ev.vals.x, y |-> ev.vals.y, width |-> ev.vals.width,
                  height |-> ev.vals.height, border_width |-> ev.vals.border_width,
                  sibling |-> ev.vals.above, stack_mode |-> ev.vals.detail]
      S0 == [S EXCEPT !.clients_ = Index(@, ev.window)]
      S1 == IF S0.clients_[ev.window] # None
            THEN XConfigureWindow(S0, S0.clients_[ev.window], ev.value_mask, changes)
            ELSE S0
  IN  XConfigureWindow(S1, ev.window, ev.value_mask, changes)

OnConfigureRequest(S, ev) ==
  LET changes == [x |-> ev.vals.x, y |-> ev.vals.y, width |-> ev.vals.width,
                  height |-> ev.vals.height, border_width |-> ev.vals.border_width,
                  sibling |-> ev.vals.above, stack_mode |-> ev.vals.detail]
      S1 == IF Count(S.clients_, ev.window) # 0
            THEN XConfigureWindow(S, S.clients_[ev.window], ev.value_mask, changes)
            ELSE S
  IN  XConfigureWindow(S1, ev.window, ev.value_mask, changes)

\* OnWMDetected that checks the error code but does not set the flag.
OnWMDetected_FlagNotSet(flag, error_code) ==
  IF error_code # BadAccess THEN <<flag, TRUE>> ELSE <<flag, FALSE>>

\* OnWMDetected(display, e): CHECK_EQ(error_code, BadAccess), then set the flag.
\* Returns <<flag, crashed>>.
OnWMDetected(flag, error_code) ==
  IF error_code # BadAccess THEN <<flag, TRUE>> ELSE <<TRUE, FALSE>>

\* OnXError(display, e): prints the error.  The function is declared int and
\* has no return statement: flowing off its end is undefined behaviour, which
\* a build turns into a return of some value (Xlib ignores it) or into a trap.
\* Returns crashed.
OnXError(err, trap) == trap

\* ---------------------------------------------------------------- events
Ev(type, window, event, value_mask, vals) ==
  [type |-> type, window |-> window, event |-> event, value_mask |-> value_mask,
   vals |-> vals]

NoEvent == Ev("none", None, None, {}, NoFieldValues)

\* XErrorEvent, the error code and the request that failed: the protocol
\* errors the error handler is tried with.
XErrors ==
  { [error_code |-> BadWindow, request |-> "ReparentWindow"],
    [error_code |-> BadAccess, request |-> "ChangeWindowAttributes"] }

Commit(R) ==
  /\ clients_' = R.clients_
  /\ alive' = R.alive
  /\ mapped' = R.mapped
  /\ parent' = R.parent
  /\ frameFor' = R.frameFor
  /\ frameMapped' = R.frameMapped
  /\ saveSet' = R.saveSet
  /\ unmapDue' = R.unmapDue
  /\ grabbed' = R.grabbed
  /\ log' = R.log

FreeIds == {f \in FrameIds : frameFor[f] = None}

\* The identifier Xlib hands to the next XCreateSimpleWindow: the lowest one
\* not in use.
NewId == CHOOSE f \in FreeIds : \A g \in FreeIds : f <= g

\* The orders in which XQueryTree may list the windows of set W.
Orders(W) ==
  {s \in [1 .. Cardinality(W) -> W] : \A a, b \in 1 .. Cardinality(W) : s[a] = s[b] => a = b}

\* ------------------------------------------------------------------- Init
Init ==
  /\ pc = "start"
  /\ wm_detected_ \in BOOLEAN      \* FALSE in a new process, TRUE once a Run has returned
  /\ clients_ = EmptyMap
  /\ top_level_windows = <<>>
  /\ i = 1
  /\ e = NoEvent
  /\ handler = "default"
  /\ otherWM \in BOOLEAN
  /\ grabbed = FALSE
  /\ alive \in SUBSET Clients
  /\ mapped \in SUBSET alive
  /\ override \in SUBSET alive
  /\ parent = [c \in Clients |-> IF c \in alive THEN Root ELSE None]
  /\ frameFor = [f \in FrameIds |-> None]
  /\ frameMapped = {}
  /\ saveSet = {}
  /\ unmapDue = {}
  /\ log = <<>>

\* -------------------------------------------------------------------- Run
\* Lines 37-38: reset the flag, install the detection handler.
RunReset ==
  /\ pc = "start"
  /\ wm_detected_' = FALSE
  /\ handler' = "OnWMDetected"
  /\ pc' = "select"
  /\ UNCHANGED <<clients_, top_level_windows, i, e, otherWM, grabbed, alive, mapped, override,
                 parent, frameFor, frameMapped, saveSet, unmapDue, log>>

\* Lines 39-43: XSelectInput on the root, XSync.  The server rejects the
\* request with BadAccess when another client redirects the root; XSync
\* delivers the error to the installed handler before it returns.
RunSelectInput ==
  /\ pc = "select"
  /\ LET r == IF otherWM THEN OnWMDetected(wm_detected_, BadAccess)
              ELSE <<wm_detected_, FALSE>>
     IN  /\ wm_detected_' = r[1]
         /\ pc' = IF r[2] THEN "aborted" ELSE "check"
  /\ log' = Issue(XSelectInput(Cur, Root, ~otherWM), Req("Sync", None, None, TRUE)).log
  /\ UNCHANGED <<clients_, top_level_windows, i, e, handler, otherWM, grabbed, alive, mapped,
                 override, parent, frameFor, frameMapped, saveSet, unmapDue>>

\* The check of the flag without the installation of OnXError that follows it.
RunCheckDetected_KeepsDetector ==
  /\ pc = "check"
  /\ pc' = IF wm_detected_ THEN "returned" ELSE "grab"
  /\ UNCHANGED <<wm_detected_, clients_, top_level_windows, i, e, handler, otherWM, grabbed,
                 alive, mapped, override, parent, frameFor, frameMapped, saveSet, unmapDue, log>>

\* Lines 44-49: return when another manager was detected, else install OnXError.
RunCheckDetected ==
  /\ pc = "check"
  /\ IF wm_detected_
     THEN pc' = "returned" /\ UNCHANGED handler
     ELSE pc' = "grab" /\ handler' = "OnXError"
  /\ UNCHANGED <<wm_detected_, clients_, top_level_windows, i, e, otherWM, grabbed, alive,
                 mapped, override, parent, frameFor, frameMapped, saveSet, unmapDue, log>>

\* Lines 52-67: grab the server and query the children of the root.  ok is the
\* status of XQueryTree: zero when the server answers the request with an
\* error (any request can fail with BadAlloc); CHECK then aborts the process.
RunGrabQuery ==
  /\ pc = "grab"
  /\ \E ok \in BOOLEAN :
       LET S1 == XGrabServer(Cur)
           S2 == Issue(S1, Req("QueryTree", Root, None, ok))
       IN  /\ Commit(S2)
           /\ IF ok
              THEN /\ top_level_windows' \in Orders({c \in alive : parent[c] = Root})
                   /\ pc' = "frame_loop"
              ELSE /\ top_level_windows' = <<>>
                   /\ pc' = "aborted"
  /\ i' = 1
  /\ UNCHANGED <<wm_detected_, e, handler, otherWM, override>>

\* Lines 70-72: one iteration of the loop, Frame(top_level_windows[i], true).
\* The grab keeps other clients from destroying windows meanwhile.
RunFrameNext ==
  /\ pc = "frame_loop"
  /\ i <= Len(top_level_windows)
  /\ FreeIds # {}
  /\ LET R == Frame(Cur, top_level_windows[i], TRUE, NewId, FALSE)
     IN  /\ Commit(R)
         /\ pc' = IF R.crashed THEN "aborted" ELSE "frame_loop"
  /\ i' = i + 1
  /\ UNCHANGED <<wm_detected_, top_level_windows, e, handler, otherWM, override>>

\* Lines 75-78: free the array and release the grab.
RunUngrab ==
  /\ pc = "frame_loop"
  /\ i > Len(top_level_windows)
  /\ Commit(XUngrabServer(Cur))
  /\ top_level_windows' = <<>>
  /\ i' = 1
  /\ pc' = "started"
  /\ UNCHANGED <<wm_detected_, e, handler, otherWM, override>>

\* ------------------------------------------------------ the event loop
\* One iteration of the loop of lines 81-117: XNextEvent returns ev (pc =
\* "loop": the manager is blocked in XNextEvent), then the handler runs to
\* its end (pc = "dispatched").
Handle(ev, R) ==
  /\ e' = ev
  /\ Commit(R)
  /\ pc' = IF R.crashed THEN "aborted" ELSE "dispatched"
  /\ UNCHANGED <<wm_detected_, top_level_windows, i, handler, otherWM, override>>

Fresh == Cur

\* The UnmapNotify for window w reported by rep has been read from the queue.
\* The handler tests only whether the reporter is the root, so any frame
\* stands for the one the window was in.
Read(S, w, rep) ==
  IF rep # Root THEN [S EXCEPT !.unmapDue = @ \ {w}] ELSE S

\* Line 81: the loop is entered after startup, or goes round after a handler;
\* the XEvent of the iteration goes out of scope.  The request log starts
\* anew with each iteration.
LoopAgain ==
  /\ pc \in {"started", "dispatched"}
  /\ pc' = "loop"
  /\ e' = NoEvent
  /\ log' = <<>>
  /\ UNCHANGED <<wm_detected_, clients_, top_level_windows, i, handler, otherWM, grabbed,
                 alive, mapped, override, parent, frameFor, frameMapped, saveSet, unmapDue>>

\* case MapRequest, for window w.
MapRequestStep(w, vanish) ==
  /\ pc = "loop"
  /\ FreeIds # {}
  /\ LET ev == Ev("MapRequest", w, None, {}, NoFieldValues)
     IN  Handle(ev, OnMapRequest(Fresh, ev, NewId, vanish))

DispatchMapRequest == \E w \in Clients : \E vanish \in BOOLEAN : MapRequestStep(w, vanish)

\* case UnmapNotify, for window w reported by window rep (e.event).
UnmapNotifyStep(w, rep) ==
  /\ pc = "loop"
  /\ LET ev == Ev("UnmapNotify", w, rep, {}, NoFieldValues)
     IN  Handle(ev, OnUnmapNotify(Read(Fresh, w, rep), ev))

\* The manager selects SubstructureNotify on the root and on its frames: a
\* client window is reported by the root or by a frame (its parent at the time
\* of the unmap, possibly destroyed since), a frame by the root.
UnmapNotifyPairs ==
  (Clients \X ({Root} \cup FrameIds)) \cup (FrameIds \X {Root})

DispatchUnmapNotify ==
  \E p \in UnmapNotifyPairs : UnmapNotifyStep(p[1], p[2])

\* case ConfigureRequest, for window w with value mask m and field values v.
ConfigureRequestStep(w, m, v) ==
  /\ pc = "loop"
  /\ LET ev == Ev("ConfigureRequest", w, None, m, v)
     IN  Handle(ev, OnConfigureRequest(Fresh, ev))

DispatchConfigureRequest ==
  \E w \in Clients : \E m \in Masks : \E v \in EvFieldValues : ConfigureRequestStep(w, m, v)

\* case DestroyNotify, for client window w: OnDestroyNotify has an empty body.
\* The server sends the event after the window is destroyed and after the
\* UnmapNotify the destruction caused, if any.
DestroyNotifyStep(w) ==
  /\ pc = "loop"
  /\ w \notin alive
  /\ w \notin unmapDue
  /\ Handle(Ev("DestroyNotify", w, None, {}, NoFieldValues), Fresh)

DispatchDestroyNotify == \E w \in Clients : DestroyNotifyStep(w)

\* CreateNotify, ReparentNotify, MapNotify, ConfigureNotify: handlers with
\* empty bodies; any other type: the default branch.
IgnoredTypes ==
  {"CreateNotify", "ReparentNotify", "MapNotify", "ConfigureNotify", "other"}

\* The handlers read no field of the event: one window stands for all.
DispatchIgnored ==
  /\ pc = "loop"
  /\ \E t \in IgnoredTypes :
       Handle(Ev(t, Root + 1, None, {}, NoFieldValues), Fresh)

\* An error reply is read while the manager waits in XNextEvent: Xlib calls
\* the installed error handler with it.  trap: what the build makes of the
\* missing return of OnXError.
XErrorStep(err, trap) ==
  /\ pc = "loop"
  /\ LET r == IF handler = "OnXError" THEN <<wm_detected_, OnXError(err, trap)>>
              ELSE OnWMDetected(wm_detected_, err.error_code)
     IN  /\ wm_detected_' = r[1]
         /\ pc' = IF r[2] THEN "aborted" ELSE "loop"
  /\ UNCHANGED <<clients_, top_level_windows, i, e, handler, otherWM, grabbed, alive, mapped,
                 override, parent, frameFor, frameMapped, saveSet, unmapDue, log>>

DeliverXError == \E err \in XErrors : \E trap \in BOOLEAN : XErrorStep(err, trap)

\* ------------------------------------------------------- the environment
\* A client destroys one of its windows; not while the server is grabbed.
ClientDestroyWindow ==
  /\ pc = "loop"
  /\ ~grabbed
  /\ \E w \in alive :
       LET R == ClientDestroy(Cur, w)
       IN  Commit(R)
  /\ UNCHANGED <<pc, wm_detected_, top_level_windows, i, e, handler, otherWM, override>>

Next ==
  \/ RunReset
  \/ RunSelectInput
  \/ RunCheckDetected
  \/ RunGrabQuery
  \/ RunFrameNext
  \/ RunUngrab
  \/ DispatchMapRequest
  \/ DispatchUnmapNotify
  \/ DispatchConfigureRequest
  \/ DispatchDestroyNotify
  \/ DispatchIgnored
  \/ DeliverXError
  \/ LoopAgain
  \/ ClientDestroyWindow

Spec == Init /\ [][Next]_vars

\* ======================================================== the properties
\* The live frame windows, and those among them created for client w.
Frames == {f \in FrameIds : frameFor[f] # None}

FramesOf(w) == {f \in FrameIds : frameFor[f] = w}

Registered == DOMAIN clients_

\* w is framed: a live frame window exists and w is its child.
IsFramed(w) == \E f \in Frames : parent[w] = f

\* The requests of kind name in a request log.
Requests(l, name) == {k \in 1 .. Len(l) : l[k].req = name}

\* C1: between two event handlers, a client window is a key of clients_ if
\* and only if it is framed (a live frame exists and the window is its child).
C1_RegistryIffFramed ==
  pc \in {"started", "dispatched", "loop"} => \A w \in Clients : (w \in Registered) <=> IsFramed(w)

\* C2: at most one live frame exists per client window at any time.
C2_AtMostOneFramePerClient ==
  \A w \in Clients : Cardinality(FramesOf(w)) <= 1

\* C3: while w is in the registry, registry[w] is a live window identifier,
\* distinct from w, from the root and from the frame of every other framed
\* client; a step that runs Unframe(w) leaves w absent from the registry.
C3_Inv ==
  \A w \in Registered :
    /\ clients_[w] \in Frames
    /\ clients_[w] # w
    /\ clients_[w] # Root
    /\ \A v \in Registered : v # w => clients_[v] # clients_[w]

C3_Step ==
  ( /\ pc = "loop"
    /\ e'.type = "UnmapNotify"
    /\ UnmapNotifyStep(e'.window, e'.event)
    /\ e'.window \in Registered
    /\ e'.event # Root )
  => e'.window \notin DOMAIN clients_'

C3_RegistryFrameLiveAndDistinct == [](C3_Inv) /\ [][C3_Step]_vars

\* C3 witness: two clients are framed, then one of them has been unframed.
C3_Witness ==
  /\ e.type = "UnmapNotify"
  /\ Requests(log, "DestroyWindow") # {}
  /\ e.window \notin Registered
  /\ Registered # {}

\* C4: when the startup sequence finishes, the keys of the registry are
\* exactly the enumerated windows that are viewable and not override-redirect,
\* each with exactly one frame; no frame exists for any other window, and as
\* many frames were created as there are keys.
Enumerated == {top_level_windows[k] : k \in 1 .. Len(top_level_windows)}

C4_Step ==
  RunUngrab =>
    LET managed == {w \in Enumerated : w \in mapped /\ w \notin override}
    IN  /\ DOMAIN clients_' = managed
        /\ \A w \in managed : Cardinality({f \in FrameIds : frameFor'[f] = w}) = 1
        /\ \A w \in Clients \ managed : {f \in FrameIds : frameFor'[f] = w} = {}
        /\ Cardinality(Requests(log', "CreateSimpleWindow")) = Cardinality(managed)
        /\ Cardinality(DOMAIN clients_') = Cardinality(managed)

C4_StartupFramesExactlyManaged == [][C4_Step]_vars

\* C4 witness: startup finished with every client window enumerated, one of
\* them override-redirect, and exactly the others framed.
C4_Witness ==
  /\ pc = "started"
  /\ Cardinality(Requests(log, "GetWindowAttributes")) = NumClients
  /\ Cardinality(override) = 1
  /\ Cardinality(Registered) = NumClients - 1
  /\ Cardinality(Frames) = NumClients - 1

\* C5: when the root-subscribe request is rejected with access-denied, Run
\* returns right after the check of the flag: it never grabs the server,
\* queries the tree, creates a frame, adds to the registry or fetches an event.
C5_DetectedManagerStopsRun ==
  otherWM =>
    /\ pc \in {"start", "select", "check", "returned"}
    /\ pc \in {"check", "returned"} => wm_detected_
    /\ ~grabbed
    /\ Frames = {}
    /\ clients_ = EmptyMap
    /\ e = NoEvent
    /\ \A k \in 1 .. Len(log) : log[k].req \in {"SelectInput", "Sync"}

\* C5 witness: Run has returned after the rejected request.
C5_Witness ==
  /\ otherWM
  /\ pc = "returned"
  /\ Requests(log, "SelectInput") # {}
  /\ ~log[1].ok

\* The value a configure-request event carries for field fld of XWindowChanges.
RequestField(v, fld) ==
  IF fld = "sibling" THEN v.above
  ELSE IF fld = "stack_mode" THEN v.detail
  ELSE v[fld]

\* Window geometries the configure operations are applied to.
Geometries == {[fld \in ChangeFields |-> 100], [fld \in ChangeFields |-> 7]}

\* Request r is a configure operation on window win that carries the value
\* mask m and the field values v of the request unchanged, and so leaves
\* every field outside m as it was.
Relays(r, win, m, v) ==
  /\ r.req = "ConfigureWindow"
  /\ r.win = win
  /\ r.mask = m
  /\ \A fld \in ChangeFields : r.changes[fld] = RequestField(v, fld)
  /\ \A g \in Geometries : \A fld \in ChangeFields :
       Configured(g, r.mask, r.changes)[fld] = IF fld \in m THEN RequestField(v, fld) ELSE g[fld]

\* C6: a configure-request for a client in the registry produces exactly two
\* configure operations, first on its frame and then on the client, both with
\* the request's value mask and field values; fields outside the mask are
\* left untouched on both windows.
C6_Step ==
  ( /\ pc = "loop"
    /\ e'.type = "ConfigureRequest"
    /\ ConfigureRequestStep(e'.window, e'.value_mask, e'.vals)
    /\ e'.window \in Registered )
  => /\ Len(log') = 2
     /\ Relays(log'[1], clients_[e'.window], e'.value_mask, e'.vals)
     /\ Relays(log'[2], e'.window, e'.value_mask, e'.vals)

C6_FramedConfigureRelayedTwice == [][C6_Step]_vars

\* C6 witness: a {width, height} request for a framed client has been relayed.
C6_Witness ==
  /\ e.type = "ConfigureRequest"
  /\ e.value_mask = {"width", "height"}
  /\ e.window \in Registered
  /\ Len(log) = 2
  /\ log[1].win = clients_[e.window]
  /\ log[1].ok /\ log[2].ok

\* C7: a configure-request for a client that is not in the registry produces
\* exactly one configure operation, on the client itself, and leaves the
\* registry unchanged.
C7_Step ==
  ( /\ pc = "loop"
    /\ e'.type = "ConfigureRequest"
    /\ ConfigureRequestStep(e'.window, e'.value_mask, e'.vals)
    /\ e'.window \notin Registered )
  => /\ Len(log') = 1
     /\ Relays(log'[1], e'.window, e'.value_mask, e'.vals)
     /\ clients_' = clients_

C7_UnframedConfigureRelayedOnce == [][C7_Step]_vars

\* C7 witness: a request for an existing, unframed client has been granted.
C7_Witness ==
  /\ e.type = "ConfigureRequest"
  /\ e.window \notin Registered
  /\ e.window \in alive
  /\ Len(log) = 1
  /\ log[1].win = e.window
  /\ log[1].ok

\* C8: an unmap-notify for a registered window w whose reporting window is
\* not the root runs Unframe exactly once: the registry loses exactly the
\* entry of w, and the frame that was registry[w] is destroyed.
C8_Step ==
  ( /\ pc = "loop"
    /\ e'.type = "UnmapNotify"
    /\ UnmapNotifyStep(e'.window, e'.event)
    /\ e'.window \in Registered
    /\ e'.event # Root )
  => LET w == e'.window
         frame == clients_[w]
     IN  /\ clients_' = Erase(clients_, w)
         /\ Cardinality(DOMAIN clients_') = Cardinality(Registered) - 1
         /\ frameFor[frame] # None
         /\ frameFor'[frame] = None
         /\ \A name \in {"UnmapWindow", "ReparentWindow", "RemoveFromSaveSet",
                         "DestroyWindow"} : Cardinality(Requests(log', name)) = 1
         /\ \A k \in Requests(log', "DestroyWindow") : log'[k].win = frame /\ log'[k].ok

C8_UnmapFromFrameUnframesOnce == [][C8_Step]_vars

\* C8 witness: the unmap-notify was reported by the frame of the window, and
\* that frame has been destroyed.
C8_Witness ==
  /\ e.type = "UnmapNotify"
  /\ e.window \in Clients
  /\ e.window \notin Registered
  /\ \E k \in Requests(log, "DestroyWindow") : log[k].win = e.event /\ log[k].ok
  /\ frameFor[e.event] = None

\* C9: an unmap-notify for a registered window whose reporting window is the
\* root runs no Unframe: the registry, the frames and the window tree are
\* unchanged and no request is issued.
C9_Step ==
  ( /\ pc = "loop"
    /\ e'.type = "UnmapNotify"
    /\ UnmapNotifyStep(e'.window, e'.event)
    /\ e'.window \in Registered
    /\ e'.event = Root )
  => /\ log' = <<>>
     /\ clients_' = clients_
     /\ UNCHANGED <<frameFor, frameMapped, parent, saveSet, alive, mapped>>

C9_UnmapFromRootIgnored == [][C9_Step]_vars

\* C9 witness: such a notification has been handled for a framed window.
C9_Witness ==
  /\ e.type = "UnmapNotify"
  /\ e.event = Root
  /\ e.window \in Registered
  /\ IsFramed(e.window)
  /\ log = <<>>

\* C10: an unmap-notify for a window that is not in the registry, whatever
\* its reporting window, issues no request and leaves the registry (and the
\* server) unchanged.
C10_Step ==
  ( /\ pc = "loop"
    /\ e'.type = "UnmapNotify"
    /\ UnmapNotifyStep(e'.window, e'.event)
    /\ e'.window \notin Registered )
  => /\ log' = <<>>
     /\ clients_' = clients_
     /\ UNCHANGED <<frameFor, frameMapped, parent, saveSet, alive, mapped>>

C10_UnmapOfUnregisteredIsNoOp == [][C10_Step]_vars

\* C10 witness: a notification reported by a live frame for an unregistered client
\* window has been handled.
C10_Witness ==
  /\ e.type = "UnmapNotify"
  /\ e.window \in Clients
  /\ e.window \notin Registered
  /\ e.event \in Frames
  /\ log = <<>>

\* C11: when the attribute query of Frame fails because the window is gone,
\* the framing attempt is given up silently: no request of Frame other than
\* the query is issued, no frame is created, the registry is unchanged and
\* the manager keeps running (the loop goes on with the next event, the
\* startup loop with the next enumerated window).
C11_Step ==
  /\ ( /\ pc = "loop"
       /\ e'.type = "MapRequest"
       /\ e'.window \notin alive
       /\ \E vanish \in BOOLEAN : MapRequestStep(e'.window, vanish) )
     => /\ pc' = "dispatched"
        /\ Requests(log', "GetWindowAttributes") = {1}
        /\ \A k \in 1 .. Len(log') :
             log'[k].req \notin {"CreateSimpleWindow", "SelectInput", "AddToSaveSet",
                                 "ReparentWindow"}
        /\ frameFor' = frameFor
        /\ clients_' = clients_
  /\ ( /\ pc = "frame_loop"
       /\ RunFrameNext
       /\ top_level_windows[i] \notin alive )
     => /\ pc' = "frame_loop"
        /\ frameFor' = frameFor
        /\ clients_' = clients_

C11_VanishedWindowFramingAbortedSilently == [][C11_Step]_vars

\* C12: the server grab taken at startup is released on every exit path:
\* once Run has left the startup sequence, by entering the event loop, by
\* returning or by aborting after a failed tree query or framing attempt, the
\* manager has released the grab; the loop never runs with the grab held.
C12_GrabReleasedOnEveryExit ==
  pc \in {"returned", "aborted", "started", "loop", "dispatched"} => ~grabbed

\* C13: after startup, a protocol error delivered to the steady-state error
\* handler, whatever its error code and request, never terminates the
\* process: the manager stays in the event loop, ready for the next event,
\* and the registry is unchanged.
C13_Step ==
  ( /\ pc = "loop"
    /\ handler = "OnXError"
    /\ DeliverXError )
  => /\ pc' = "loop"
     /\ clients_' = clients_

C13_SteadyStateErrorNeverTerminates == [][C13_Step]_vars

\* C14: the flag wm_detected_ is reset to false at the start of Run; it
\* becomes true only while OnWMDetected is installed, between its
\* installation and the XSync that follows the XSelectInput on the root; the
\* test right after that XSync decides whether Run returns; from then on the
\* flag is never written: no error delivered once OnXError is installed
\* changes it.
C14_Step ==
  /\ pc = "start" => ~wm_detected_'
  /\ (wm_detected_' /\ ~wm_detected_) => (pc = "select" /\ handler = "OnWMDetected")
  /\ pc = "check" => ((pc' = "returned") <=> wm_detected_)
  /\ pc \notin {"start", "select"} => wm_detected_' = wm_detected_
  /\ handler = "OnXError" => wm_detected_' = wm_detected_

C14_FlagWrittenOnlyDuringDetection == [][C14_Step]_vars

\* C14 witness: the manager waits in the event loop, where protocol errors
\* reach OnXError, with clients framed and the flag still as the reset and
\* the detection phase left it.
C14_Witness ==
  /\ pc = "loop"
  /\ handler = "OnXError"
  /\ ~wm_detected_
  /\ ~otherWM
  /\ Registered # {}

\* C15: registry entries are added only by Frame and removed only by
\* Unframe: handling an event of any kind other than MapRequest and
\* UnmapNotify (CreateNotify, DestroyNotify, ReparentNotify, MapNotify,
\* ConfigureRequest, ConfigureNotify, an unrecognized kind) leaves the
\* registry unchanged, and an unrecognized kind also issues no request.
C15_Step ==
  /\ (pc = "loop" /\ e'.type \notin {"MapRequest", "UnmapNotify", "none"})
       => clients_' = clients_
  /\ (pc = "loop" /\ e'.type = "other") => log' = <<>>
  /\ DOMAIN clients_' \ DOMAIN clients_ # {}
       => \/ pc = "frame_loop"
          \/ pc = "loop" /\ e'.type = "MapRequest"
  /\ DOMAIN clients_ \ DOMAIN clients_' # {}
       => pc = "loop" /\ e'.type = "UnmapNotify"
  /\ clients_' # clients_
       => \/ pc = "frame_loop"
          \/ pc = "loop" /\ e'.type \in {"MapRequest", "UnmapNotify"}

C15_RegistryChangedOnlyByFrameAndUnframe == [][C15_Step]_vars

\* C15 witness: an event of an unrecognized kind has been handled while
\* clients are registered, without a request.
C15_Witness ==
  /\ pc = "dispatched"
  /\ e.type = "other"
  /\ Registered # {}
  /\ log = <<>>

\* C16: Unframe(w) for a registered w issues, in this order, the unmap of
\* the frame, the reparenting of w to the root, the removal of w from the
\* save set and the destruction of the frame, and only then drops the
\* registry entry: at each of the four requests w is still a key mapped to
\* the same frame.
C16_Step ==
  ( /\ pc = "loop"
    /\ e'.type = "UnmapNotify"
    /\ UnmapNotifyStep(e'.window, e'.event)
    /\ e'.window \in Registered
    /\ e'.event # Root )
  => LET w     == e'.window
         frame == clients_[w]
     IN  /\ Len(log') = 4
         /\ log'[1].req = "UnmapWindow" /\ log'[1].win = frame
         /\ log'[2].req = "ReparentWindow" /\ log'[2].win = w /\ log'[2].arg = Root
         /\ log'[3].req = "RemoveFromSaveSet" /\ log'[3].win = w
         /\ log'[4].req = "DestroyWindow" /\ log'[4].win = frame
         /\ \A k \in 1 .. 4 :
              /\ w \in DOMAIN log'[k].clients_
              /\ log'[k].clients_[w] = frame
         /\ w \notin DOMAIN clients_'

C16_UnframeOrderEntryRemovedLast == [][C16_Step]_vars

\* C16 witness: a live client has been unframed; the four requests were
\* carried out with the entry still in the registry, and the entry is gone.
C16_Witness ==
  /\ pc = "dispatched"
  /\ e.type = "UnmapNotify"
  /\ e.window \in alive
  /\ Len(log) = 4
  /\ \A k \in 1 .. 4 : log[k].ok /\ e.window \in DOMAIN log[k].clients_
  /\ e.window \notin Registered

\* C17: Frame inserts the pair (w, frame) only after w was reparented into
\* the frame: whenever a step makes w a key of the registry, or gives the key
\* a new frame, w is a child of that frame when the step ends.
C17_Step ==
  \A w \in DOMAIN clients_' :
    (w \notin DOMAIN clients_ \/ clients_[w] # clients_'[w])
      => /\ parent'[w] = clients_'[w]
         /\ \E k \in Requests(log', "ReparentWindow") :
              log'[k].win = w /\ log'[k].arg = clients_'[w] /\ log'[k].ok

C17_InsertedOnlyAfterReparenting == [][C17_Step]_vars

\* C18 as stated: a client whose parent is a frame is in the save set, and
\* between handlers every key of the registry is in the save set.
C18_EveryKeyInSaveSet ==
  /\ \A w \in Clients : parent[w] \in Frames => w \in saveSet
  /\ pc \in {"started", "loop", "dispatched"} => Registered \subseteq saveSet

\* C18, amended: a client whose parent is a frame is in the save set, from
\* the reparenting in Frame (which follows the addition to the save set) to
\* the reparenting back in Unframe (which precedes the removal); every key
\* of the registry whose window still exists is in the save set; after
\* Unframe(w), w is not in the save set.  (The server takes a destroyed
\* window out of every save set.)
C18_Inv ==
  \A w \in Clients :
    /\ parent[w] \in Frames => w \in saveSet
    /\ (w \in Registered /\ w \in alive) => w \in saveSet

C18_Step ==
  /\ \A k \in Requests(log', "ReparentWindow") :
       (log'[k].ok /\ log'[k].arg # Root)
         => \E j \in Requests(log', "AddToSaveSet") :
              j < k /\ log'[j].win = log'[k].win /\ log'[j].ok
  /\ \A k \in Requests(log', "RemoveFromSaveSet") :
       \E j \in Requests(log', "ReparentWindow") :
         j < k /\ log'[j].win = log'[k].win /\ log'[j].arg = Root
  /\ ( /\ pc = "loop"
       /\ e'.type = "UnmapNotify"
       /\ e'.window \in Registered
       /\ e'.event # Root )
     => e'.window \notin saveSet'

C18_FramedClientsInSaveSet == [](C18_Inv) /\ [][C18_Step]_vars

\* C18 witness: a live client has just been framed by the MapRequest
\* handler: it is a key, a child of its frame and in the save set.
C18_Witness ==
  /\ pc = "dispatched"
  /\ e.type = "MapRequest"
  /\ e.window \in Registered
  /\ e.window \in alive
  /\ parent[e.window] = clients_[e.window]
  /\ e.window \in saveSet

\* C19: on a MapRequest for w the manager calls Frame(w, false) and then
\* maps w, in that order.  The exclusion policy is not applied: whether or
\* not w is override-redirect or viewable, if the attribute query succeeds
\* then at the end of the handler w is a key of the registry, its frame has
\* been mapped, and the map of w was issued after the reparenting of w into
\* the frame (and is the last request of the handler).
C19_Step ==
  ( /\ pc = "loop"
    /\ e'.type = "MapRequest"
    /\ e'.window \in alive
    /\ \E vanish \in BOOLEAN : MapRequestStep(e'.window, vanish) )
  => LET w == e'.window
     IN  /\ pc' = "dispatched"
         /\ w \in DOMAIN clients_'
         /\ clients_'[w] \in Frames' \ Frames
         /\ clients_'[w] \in frameMapped'
         /\ Len(log') = 7
         /\ log'[1].req = "GetWindowAttributes" /\ log'[1].win = w /\ log'[1].ok
         /\ log'[2].req = "CreateSimpleWindow" /\ log'[2].win = clients_'[w]
         /\ log'[5].req = "ReparentWindow" /\ log'[5].win = w /\ log'[5].arg = clients_'[w]
         /\ log'[6].req = "MapWindow" /\ log'[6].win = clients_'[w] /\ log'[6].ok
         /\ log'[7].req = "MapWindow" /\ log'[7].win = w
         /\ w \in alive' => /\ log'[5].ok /\ log'[7].ok
                            /\ parent'[w] = clients_'[w]
                            /\ w \in mapped'

C19_MapRequestFramesThenMaps == [][C19_Step]_vars

\* C19 witness: an override-redirect client has been framed and mapped by
\* the MapRequest handler.
C19_Witness ==
  /\ pc = "dispatched"
  /\ e.type = "MapRequest"
  /\ e.window \in override
  /\ e.window \in mapped
  /\ e.window \in Registered
  /\ clients_[e.window] \in frameMapped
  /\ Len(log) = 7
  /\ log[7].ok

\* C20: no registry entry outlives its client window: once the
\* DestroyNotify for a client window has been handled, the window is no key
\* of the registry and no frame created for it is left.
C20_NoEntryOutlivesItsClient ==
  (pc = "dispatched" /\ e.type = "DestroyNotify")
    => /\ e.window \notin Registered
       /\ FramesOf(e.window) = {}

====
